---- MODULE Spec2Model ----
(***************************************************************************)
(* Model of the simulation core of alien_game: the alien's movement and    *)
(* firing plans (src/src/alien.rs), bullets (src/src/bullet.rs), the       *)
(* rectangle collision test (src/src/simple_collision.rs) and the game     *)
(* tick with its input handlers (src/src/main.rs).                         *)
(*                                                                         *)
(* Units are the program's: positions in pixels, time in milliseconds.     *)
(* An Instant is the number of milliseconds since Game::starting ran.      *)
(* f32 values are modelled by integers; Duration::as_secs_f32 is ms/1000,  *)
(* and the only inexact quotient, the tween, is rounded down.              *)
(* Option<T> is a sequence of length 0 (None) or 1 (Some).                 *)
(* The audio collaborator is taken to succeed: an Err from play ends the   *)
(* event loop, so no later state of the game exists.                       *)
(***************************************************************************)
EXTENDS Integers, Sequences, FiniteSets, TLC

VARIABLES
    game,     \* struct Game: alien, player, bullets, last_tick, score, ...
    fired,    \* what the last Alien::update returned (Option<Bullet>)
    hits,     \* the bullets the last tick's collision loop played the bloop for
    removed,  \* the bullets the last tick's collision retain dropped
    pruned,   \* the bullets the last tick's clean_up_out_of_bounds_bullets dropped
    expired,  \* number of movement plans that have expired so far (capped at 2)
    tock,     \* flips at every tick (or update)
    last_dt,  \* the dt of the last tick (or update), -1 before the first
    first_tick,  \* the now of the first tick (or update), -1 before it
    shot_times,  \* the now of every update that returned a bullet, in order
    probe     \* the last call of are_colliding made on its own: arguments and results

vars == <<game, fired, hits, removed, pruned, expired, tock, last_dt,
          first_tick, shot_times, probe>>

---------------------------------------------------------------------------
(* Bounds of the model *)

\* Ticks are taken while the clock stays within MaxTime milliseconds
MaxTime == 3000

\* Frame times drawn for dt = Instant::now() - last_tick
DtSet == {0, 1000}

\* Values the f32 gen_range(min_x, max_x) is drawn from
XGrid == {30, 250}

\* Values gen_range(300, 2000) is drawn from
DurationSet == {300, 1600}

\* Values gen_range(200, 700) is drawn from
DelaySet == {200, 600}

\* Window sizes: the initial screen coordinates and what a resize brings
InitialScreen == <<200, 150>>
ScreenSizes == {<<200, 150>>, <<20, 20>>}

\* The alien on its own: updates are taken while now stays within MaxAlienTime,
\* from these starting positions and movement ranges, now advancing by these steps
MaxAlienTime == 1500
AlienStarts == {<<50, 50>>, <<20, 50>>}
AlienRanges == {<<0, 40>>, <<0, 300>>}
AlienDtSet == {0, 100, 200, 1000}

\* Dimensions <<w, h>> of the loaded images: player, red and green bullet
\* Steady play: a window that is not resized and ticks that all take time
MaxSteadyTime == 3000
SteadyDtSet == {600, 1000}
SteadyScreen == <<40, 10>>

\* Rectangles handed to are_colliding on its own
RectCoords == 0..2
RectSizes == 0..2
Rects == [x : RectCoords, y : RectCoords, w : RectSizes, h : RectSizes]

SpriteConfigs ==
    { [player |-> <<64, 64>>, red_bullet |-> <<16, 32>>, green_bullet |-> <<16, 32>>],
      [player |-> <<64, 1000>>, red_bullet |-> <<16, 32>>, green_bullet |-> <<16, 32>>] }

---------------------------------------------------------------------------
(* Program constants *)

VELOCITY == 500
PLAYER_SPEED == 1000
InitialDelay == 1000

None == <<>>
Some(v) == <<v>>

---------------------------------------------------------------------------
(* simple_collision.rs *)

\* Variant: the four comparisons admit equality
AreCollidingInclusive(rect1, rect2) ==
    /\ rect1.x <= rect2.x + rect2.w
    /\ rect1.x + rect1.w >= rect2.x
    /\ rect1.y <= rect2.y + rect2.h
    /\ rect1.y + rect1.h >= rect2.y

AreColliding(rect1, rect2) ==
    /\ rect1.x < rect2.x + rect2.w
    /\ rect1.x + rect1.w > rect2.x
    /\ rect1.y < rect2.y + rect2.h
    /\ rect1.y + rect1.h > rect2.y

---------------------------------------------------------------------------
(* bullet.rs *)

\* Variant: the step is not scaled by the time passed
MoveDownUnscaled(b, dt) ==
    [b EXCEPT !.pos = <<b.pos[1], b.pos[2] + VELOCITY>>]

MoveDown(b, dt) ==
    [b EXCEPT !.pos = <<b.pos[1], b.pos[2] + (VELOCITY * dt) \div 1000>>]

Deadly(b) == b.color # "Green"

RedBullet(sprites, pos) ==
    [pos |-> pos, color |-> "Red", sprite |-> sprites.red_bullet]

GreenBullet(sprites, pos) ==
    [pos |-> pos, color |-> "Green", sprite |-> sprites.green_bullet]

BulletRect(b) ==
    [x |-> b.pos[1] - b.sprite[1] \div 2, y |-> b.pos[2] - b.sprite[2] \div 2,
     w |-> b.sprite[1], h |-> b.sprite[2]]

---------------------------------------------------------------------------
(* alien.rs *)

StartingAt(pos, x_movement_range) ==
    [pos |-> pos, x_movement_range |-> x_movement_range,
     firing_plan |-> None, movement_plan |-> None]

GenRangeX(min_x, max_x) == {x \in XGrid : min_x <= x /\ x < max_x}

GenMovementPlan(start_pos, now, x, duration) ==
    [start_pos |-> start_pos, next_pos |-> <<x, start_pos[2]>>,
     plan_made |-> now, duration |-> duration]

\* Variant: the plan has expired at the instant its duration has elapsed
MovementExpiredInclusive(plan, now) == plan.plan_made + plan.duration <= now

MovementExpired(plan, now) == plan.plan_made + plan.duration < now

Tween(plan, now) ==
    LET elapsed == now - plan.plan_made
    IN  << plan.start_pos[1]
             + (elapsed * (plan.next_pos[1] - plan.start_pos[1])) \div plan.duration,
           plan.start_pos[2]
             + (elapsed * (plan.next_pos[2] - plan.start_pos[2])) \div plan.duration >>

\* lines 77-101: d.x and d.duration are the values the generator yields
UpdateMovement(a, now, d) ==
    LET start_pos == a.pos
        gen == GenMovementPlan(start_pos, now, d.x, d.duration)
    IN  IF a.movement_plan = None
        THEN [a EXCEPT !.movement_plan = Some(gen)]
        ELSE LET plan == a.movement_plan[1]
             IN  IF MovementExpired(plan, now)
                 THEN [a EXCEPT !.pos = plan.next_pos, !.movement_plan = Some(gen)]
                 ELSE [a EXCEPT !.pos = Tween(plan, now)]

\* Variant: the plan fires at the instant its delay has elapsed
FiringDueInclusive(plan, now) == plan.plan_made + plan.delay <= now

FiringDue(plan, now) == plan.plan_made + plan.delay < now

FiredBullet(plan, sprites, pos) ==
    IF plan.dangerous THEN RedBullet(sprites, pos) ELSE GreenBullet(sprites, pos)

\* Variant: the bullet takes the flag drawn for the next plan
UpdateFiringRerolled(a, now, sprites, d) ==
    IF a.firing_plan = None
    THEN [alien |-> [a EXCEPT !.firing_plan =
                        Some([dangerous |-> FALSE, plan_made |-> now,
                              delay |-> InitialDelay])],
          fired |-> None]
    ELSE LET plan == a.firing_plan[1]
             next == [dangerous |-> d.dangerous, plan_made |-> now, delay |-> d.delay]
         IN  IF FiringDue(plan, now)
             THEN [alien |-> [a EXCEPT !.firing_plan = Some(next)],
                   fired |-> Some(FiredBullet(next, sprites, a.pos))]
             ELSE [alien |-> a, fired |-> None]

\* Variant: the first plan is armed dangerous
UpdateFiringArmsDangerous(a, now, sprites, d) ==
    IF a.firing_plan = None
    THEN [alien |-> [a EXCEPT !.firing_plan =
                        Some([dangerous |-> TRUE, plan_made |-> now,
                              delay |-> InitialDelay])],
          fired |-> None]
    ELSE LET plan == a.firing_plan[1]
             next == [dangerous |-> d.dangerous, plan_made |-> now, delay |-> d.delay]
         IN  IF FiringDue(plan, now)
             THEN [alien |-> [a EXCEPT !.firing_plan = Some(next)],
                   fired |-> Some(FiredBullet(plan, sprites, a.pos))]
             ELSE [alien |-> a, fired |-> None]

\* Variant: the plan made at a firing keeps the stamp of the plan that fired
UpdateFiringStaleStamp(a, now, sprites, d) ==
    IF a.firing_plan = None
    THEN [alien |-> [a EXCEPT !.firing_plan =
                        Some([dangerous |-> FALSE, plan_made |-> now,
                              delay |-> InitialDelay])],
          fired |-> None]
    ELSE LET plan == a.firing_plan[1]
             next == [dangerous |-> d.dangerous, plan_made |-> plan.plan_made,
                      delay |-> d.delay]
         IN  IF FiringDue(plan, now)
             THEN [alien |-> [a EXCEPT !.firing_plan = Some(next)],
                   fired |-> Some(FiredBullet(plan, sprites, a.pos))]
             ELSE [alien |-> a, fired |-> None]

\* lines 103-128: d.dangerous and d.delay are the values the generator yields
UpdateFiring(a, now, sprites, d) ==
    IF a.firing_plan = None
    THEN [alien |-> [a EXCEPT !.firing_plan =
                        Some([dangerous |-> FALSE, plan_made |-> now,
                              delay |-> InitialDelay])],
          fired |-> None]
    ELSE LET plan == a.firing_plan[1]
         IN  IF FiringDue(plan, now)
             THEN [alien |-> [a EXCEPT !.firing_plan =
                                 Some([dangerous |-> d.dangerous, plan_made |-> now,
                                       delay |-> d.delay])],
                   fired |-> Some(FiredBullet(plan, sprites, a.pos))]
             ELSE [alien |-> a, fired |-> None]

AlienUpdate(a, now, sprites, d) ==
    UpdateFiring(UpdateMovement(a, now, d), now, sprites, d)

\* Whether this update finds the movement plan expired
WillExpire(a, now) ==
    a.movement_plan # None /\ MovementExpired(a.movement_plan[1], now)

\* The values drawn by one update: the generator is called only where a plan
\* is made, so the draws an update does not make are fixed to one value.
Draws(a, now) ==
    LET xs == GenRangeX(a.x_movement_range[1], a.x_movement_range[2])
        plans == a.movement_plan = None \/ WillExpire(a, now)
        fires == a.firing_plan # None /\ FiringDue(a.firing_plan[1], now)
    IN  [x : IF plans THEN xs ELSE {CHOOSE x \in xs : TRUE},
         duration : IF plans THEN DurationSet ELSE {CHOOSE t \in DurationSet : TRUE},
         dangerous : IF fires THEN BOOLEAN ELSE {FALSE},
         delay : IF fires THEN DelaySet ELSE {CHOOSE t \in DelaySet : TRUE}]

---------------------------------------------------------------------------
(* main.rs *)

PlayerStartingAt(pos, sprite) == [pos |-> pos, sprite |-> sprite]

PlayerRect(p) ==
    [x |-> p.pos[1] - p.sprite[1] \div 2, y |-> p.pos[2] - p.sprite[2] \div 2,
     w |-> p.sprite[1], h |-> p.sprite[2]]

\* Variant: the step is not scaled by the time passed
ExecuteIntentUnscaled(p, player_intent, dt) ==
    CASE player_intent = "StayStill" -> p
      [] player_intent = "MoveLeft" ->
            [p EXCEPT !.pos = <<p.pos[1] - PLAYER_SPEED, p.pos[2]>>]
      [] player_intent = "MoveRight" ->
            [p EXCEPT !.pos = <<p.pos[1] + PLAYER_SPEED, p.pos[2]>>]

\* Variant: the player stops at the left edge of the window
ExecuteIntentClamped(p, player_intent, dt) ==
    CASE player_intent = "StayStill" -> p
      [] player_intent = "MoveLeft" ->
            LET x == p.pos[1] - (PLAYER_SPEED * dt) \div 1000
            IN  [p EXCEPT !.pos = <<IF x < 0 THEN 0 ELSE x, p.pos[2]>>]
      [] player_intent = "MoveRight" ->
            [p EXCEPT !.pos = <<p.pos[1] + (PLAYER_SPEED * dt) \div 1000, p.pos[2]>>]

ExecuteIntent(p, player_intent, dt) ==
    CASE player_intent = "StayStill" -> p
      [] player_intent = "MoveLeft" ->
            [p EXCEPT !.pos = <<p.pos[1] - (PLAYER_SPEED * dt) \div 1000, p.pos[2]>>]
      [] player_intent = "MoveRight" ->
            [p EXCEPT !.pos = <<p.pos[1] + (PLAYER_SPEED * dt) \div 1000, p.pos[2]>>]

PlayerIntent(keys_pressed) ==
    IF keys_pressed.left /\ keys_pressed.right THEN "StayStill"
    ELSE IF keys_pressed.left THEN "MoveLeft"
    ELSE IF keys_pressed.right THEN "MoveRight"
    ELSE "StayStill"

GameStarting(screen, sprites) ==
    [alien |-> StartingAt(<<50, 50>>, <<0, screen[1]>>),
     player |-> PlayerStartingAt(<<50, 550>>, sprites.player),
     bullets |-> <<>>,
     last_tick |-> 0,
     score |-> 0,
     game_over |-> FALSE,
     screen_size |-> screen,
     keys_pressed |-> [left |-> FALSE, right |-> FALSE],
     sprites |-> sprites]

\* distance(p1, p2)^2; the square root is monotonic, so distance < a for a >= 0
\* is DistanceSq < a * a
DistanceSq(p1, p2) ==
    (p1[1] - p2[1]) * (p1[1] - p2[1]) + (p1[2] - p2[2]) * (p1[2] - p2[2])

\* Variant: a bullet is kept while it is above the bottom of the screen
\* Variant: no bullet is ever out of bounds
InBoundsAlways(b, screen_size) == TRUE

InBoundsByHeight(b, screen_size) == b.pos[2] < screen_size[2]

InBounds(b, screen_size) ==
    LET screen_area == screen_size[1] * screen_size[2]
    IN  DistanceSq(b.pos, <<0, 0>>) < screen_area * screen_area

CleanUpOutOfBoundsBullets(bullets, screen_size) ==
    SelectSeq(bullets, LAMBDA b : InBounds(b, screen_size))

Collides(player, b) == AreColliding(PlayerRect(player), BulletRect(b))

\* lines 230-242: the loop over the bullets; acc holds score, game_over, the
\* bullets the bloop was played for, and the indices put in keep
RECURSIVE CollisionLoop(_, _, _, _)
CollisionLoop(player, bullets, idx, acc) ==
    IF idx > Len(bullets) THEN acc
    ELSE LET bullet == bullets[idx]
         IN  IF Collides(player, bullet)
             THEN IF Deadly(bullet)
                  THEN CollisionLoop(player, bullets, idx + 1,
                          [acc EXCEPT !.game_over = TRUE, !.hits = Append(@, bullet)])
                  ELSE CollisionLoop(player, bullets, idx + 1,
                          [acc EXCEPT !.score = @ + 1, !.hits = Append(@, bullet)])
             ELSE CollisionLoop(player, bullets, idx + 1,
                          [acc EXCEPT !.keep = @ \cup {idx}])

\* Variant: the flag is computed afresh by each tick
ResolveCollisionsFresh(player, bullets, score, game_over) ==
    CollisionLoop(player, bullets, 1,
        [score |-> score, game_over |-> FALSE, hits |-> <<>>, keep |-> {}])

\* Variant: the loop stops after the first colliding bullet
RECURSIVE CollisionLoopBreak(_, _, _, _)
CollisionLoopBreak(player, bullets, idx, acc) ==
    IF idx > Len(bullets) THEN acc
    ELSE LET bullet == bullets[idx]
         IN  IF Collides(player, bullet)
             THEN IF Deadly(bullet)
                  THEN [acc EXCEPT !.game_over = TRUE, !.hits = Append(@, bullet)]
                  ELSE [acc EXCEPT !.score = @ + 1, !.hits = Append(@, bullet)]
             ELSE CollisionLoopBreak(player, bullets, idx + 1,
                          [acc EXCEPT !.keep = @ \cup {idx}])

ResolveCollisionsFirstHit(player, bullets, score, game_over) ==
    CollisionLoopBreak(player, bullets, 1,
        [score |-> score, game_over |-> game_over, hits |-> <<>>, keep |-> {}])

ResolveCollisions(player, bullets, score, game_over) ==
    CollisionLoop(player, bullets, 1,
        [score |-> score, game_over |-> game_over, hits |-> <<>>, keep |-> {}])

\* Variant: only the harmless colliding bullets are dropped
RetainUnlessCaught(player, bullets) ==
    SelectSeq(bullets, LAMBDA b : ~Collides(player, b) \/ Deadly(b))

\* line 245
RetainNotColliding(player, bullets) ==
    SelectSeq(bullets, LAMBDA b : ~Collides(player, b))

\* The elements of a Vec that a retain dropped, in order
Dropped(before, after) ==
    SelectSeq(before, LAMBDA b : \A i \in 1..Len(after) : after[i] # b)

\* Variant: a tick does nothing once the game is over
TickFnGated(g, dt, d) ==
    IF g.game_over
    THEN [game |-> g, fired |-> None, hits |-> <<>>, removed |-> <<>>, pruned |-> <<>>]
    ELSE LET now == g.last_tick + dt
             moved == [i \in 1..Len(g.bullets) |-> MoveDown(g.bullets[i], dt)]
             upd == AlienUpdate(g.alien, now, g.sprites, d)
             pushed == moved \o upd.fired
             res == ResolveCollisions(g.player, pushed, g.score, g.game_over)
             kept == RetainNotColliding(g.player, pushed)
             player == ExecuteIntent(g.player, PlayerIntent(g.keys_pressed), dt)
             cleaned == CleanUpOutOfBoundsBullets(kept, g.screen_size)
         IN  [game |-> [g EXCEPT !.alien = upd.alien,
                                 !.bullets = cleaned,
                                 !.score = res.score,
                                 !.game_over = res.game_over,
                                 !.player = player,
                                 !.last_tick = now],
              fired |-> upd.fired,
              hits |-> res.hits,
              removed |-> Dropped(pushed, kept),
              pruned |-> Dropped(kept, cleaned)]

\* Variant: the bullet the alien returns is pushed twice
TickFnPushTwice(g, dt, d) ==
    LET now == g.last_tick + dt
        moved == [i \in 1..Len(g.bullets) |-> MoveDown(g.bullets[i], dt)]
        upd == AlienUpdate(g.alien, now, g.sprites, d)
        pushed == (moved \o upd.fired) \o upd.fired
        res == ResolveCollisions(g.player, pushed, g.score, g.game_over)
        kept == RetainNotColliding(g.player, pushed)
        player == ExecuteIntent(g.player, PlayerIntent(g.keys_pressed), dt)
        cleaned == CleanUpOutOfBoundsBullets(kept, g.screen_size)
    IN  [game |-> [g EXCEPT !.alien = upd.alien,
                            !.bullets = cleaned,
                            !.score = res.score,
                            !.game_over = res.game_over,
                            !.player = player,
                            !.last_tick = now],
         fired |-> upd.fired,
         hits |-> res.hits,
         removed |-> Dropped(pushed, kept),
         pruned |-> Dropped(kept, cleaned)]

\* Variant: the alien fires after the collisions are resolved
TickFnFireLast(g, dt, d) ==
    LET now == g.last_tick + dt
        moved == [i \in 1..Len(g.bullets) |-> MoveDown(g.bullets[i], dt)]
        res == ResolveCollisions(g.player, moved, g.score, g.game_over)
        kept == RetainNotColliding(g.player, moved)
        upd == AlienUpdate(g.alien, now, g.sprites, d)
        pushed == kept \o upd.fired
        player == ExecuteIntent(g.player, PlayerIntent(g.keys_pressed), dt)
        cleaned == CleanUpOutOfBoundsBullets(pushed, g.screen_size)
    IN  [game |-> [g EXCEPT !.alien = upd.alien,
                            !.bullets = cleaned,
                            !.score = res.score,
                            !.game_over = res.game_over,
                            !.player = player,
                            !.last_tick = now],
         fired |-> upd.fired,
         hits |-> res.hits,
         removed |-> Dropped(moved, kept),
         pruned |-> Dropped(pushed, cleaned)]

\* Variant: the player moves before the collisions are resolved
TickFnMoveFirst(g, dt, d) ==
    LET now == g.last_tick + dt
        moved == [i \in 1..Len(g.bullets) |-> MoveDown(g.bullets[i], dt)]
        upd == AlienUpdate(g.alien, now, g.sprites, d)
        pushed == moved \o upd.fired
        player == ExecuteIntent(g.player, PlayerIntent(g.keys_pressed), dt)
        res == ResolveCollisions(player, pushed, g.score, g.game_over)
        kept == RetainNotColliding(player, pushed)
        cleaned == CleanUpOutOfBoundsBullets(kept, g.screen_size)
    IN  [game |-> [g EXCEPT !.alien = upd.alien,
                            !.bullets = cleaned,
                            !.score = res.score,
                            !.game_over = res.game_over,
                            !.player = player,
                            !.last_tick = now],
         fired |-> upd.fired,
         hits |-> res.hits,
         removed |-> Dropped(pushed, kept),
         pruned |-> Dropped(kept, cleaned)]

\* lines 214-252: the whole tick; the result carries the new Game and what
\* each step of the tick produced
TickFn(g, dt, d) ==
    LET now == g.last_tick + dt
        moved == [i \in 1..Len(g.bullets) |-> MoveDown(g.bullets[i], dt)]
        upd == AlienUpdate(g.alien, now, g.sprites, d)
        pushed == moved \o upd.fired
        res == ResolveCollisions(g.player, pushed, g.score, g.game_over)
        kept == RetainNotColliding(g.player, pushed)
        player == ExecuteIntent(g.player, PlayerIntent(g.keys_pressed), dt)
        cleaned == CleanUpOutOfBoundsBullets(kept, g.screen_size)
    IN  [game |-> [g EXCEPT !.alien = upd.alien,
                            !.bullets = cleaned,
                            !.score = res.score,
                            !.game_over = res.game_over,
                            !.player = player,
                            !.last_tick = now],
         fired |-> upd.fired,
         hits |-> res.hits,
         removed |-> Dropped(pushed, kept),
         pruned |-> Dropped(kept, cleaned)]

---------------------------------------------------------------------------
(* The game: Game::starting, then ticks, key events and resizes *)

Init ==
    /\ \E sprites \in SpriteConfigs : game = GameStarting(InitialScreen, sprites)
    /\ fired = None
    /\ hits = <<>>
    /\ removed = <<>>
    /\ pruned = <<>>
    /\ expired = 0
    /\ tock = FALSE
    /\ last_dt = -1
    /\ first_tick = -1
    /\ shot_times = <<>>
    /\ probe = None

\* The history an update leaves: when the first one ran, and when bullets came
History(now, bullet) ==
    /\ first_tick' = IF first_tick = -1 THEN now ELSE first_tick
    /\ shot_times' = IF bullet # None THEN Append(shot_times, now) ELSE shot_times
    /\ UNCHANGED probe

CountExpired(a, now) ==
    IF WillExpire(a, now) /\ expired < 2 THEN expired + 1 ELSE expired

\* EventHandler::update, lines 293-297
Tick(dt) ==
    /\ game.last_tick + dt <= MaxTime
    /\ \E d \in Draws(game.alien, game.last_tick + dt) :
          LET r == TickFn(game, dt, d)
          IN  /\ game' = r.game
              /\ fired' = r.fired
              /\ hits' = r.hits
              /\ removed' = r.removed
              /\ pruned' = r.pruned
              /\ History(game.last_tick + dt, r.fired)
    /\ expired' = CountExpired(game.alien, game.last_tick + dt)
    /\ tock' = ~tock
    /\ last_dt' = dt

\* key_down_event, lines 310-327 (Left or Right; pressing a key that is down,
\* or any other key, leaves the game as it is)
KeyDown(key) ==
    /\ ~game.keys_pressed[key]
    /\ game' = [game EXCEPT !.keys_pressed[key] = TRUE]
    /\ UNCHANGED <<fired, hits, removed, pruned, expired, tock, last_dt,
                 first_tick, shot_times, probe>>

\* key_up_event, lines 329-340 (releasing a key that is up changes nothing)
KeyUp(key) ==
    /\ game.keys_pressed[key]
    /\ game' = [game EXCEPT !.keys_pressed[key] = FALSE]
    /\ UNCHANGED <<fired, hits, removed, pruned, expired, tock, last_dt,
                 first_tick, shot_times, probe>>

\* resize_event, lines 342-345 (a resize to the same size changes nothing)
Resize(size) ==
    /\ game.screen_size # size
    /\ game' = [game EXCEPT !.screen_size = size]
    /\ UNCHANGED <<fired, hits, removed, pruned, expired, tock, last_dt,
                 first_tick, shot_times, probe>>

Next ==
    \/ \E dt \in DtSet : Tick(dt)
    \/ \E key \in {"left", "right"} : KeyDown(key)
    \/ \E key \in {"left", "right"} : KeyUp(key)
    \/ \E size \in ScreenSizes : Resize(size)

Spec == Init /\ [][Next]_vars

---------------------------------------------------------------------------
(* The alien on its own: Alien::starting_at with any position and range, then
   updates with non-decreasing now (kept in game.last_tick) *)

InitAlien ==
    /\ \E pos \in AlienStarts, range \in AlienRanges :
          game = [GameStarting(InitialScreen, CHOOSE sprites \in SpriteConfigs : TRUE)
                    EXCEPT !.alien = StartingAt(pos, range)]
    /\ fired = None
    /\ hits = <<>>
    /\ removed = <<>>
    /\ pruned = <<>>
    /\ expired = 0
    /\ tock = FALSE
    /\ last_dt = -1
    /\ first_tick = -1
    /\ shot_times = <<>>
    /\ probe = None

Update(dt) ==
    /\ game.last_tick + dt <= MaxAlienTime
    /\ \E d \in Draws(game.alien, game.last_tick + dt) :
          LET upd == AlienUpdate(game.alien, game.last_tick + dt, game.sprites, d)
          IN  /\ game' = [game EXCEPT !.alien = upd.alien,
                                      !.last_tick = game.last_tick + dt]
              /\ fired' = upd.fired
              /\ History(game.last_tick + dt, upd.fired)
    /\ expired' = CountExpired(game.alien, game.last_tick + dt)
    /\ tock' = ~tock
    /\ last_dt' = dt
    /\ UNCHANGED <<hits, removed, pruned>>

NextAlien == \E dt \in AlienDtSet : Update(dt)

SpecAlien == InitAlien /\ [][NextAlien]_vars

---------------------------------------------------------------------------
(* Properties *)

\* A step that is a tick (or an update of the alien on its own)
IsTick == tock' # tock

\* The firing plan a step starts from exists
Armed == game.alien.firing_plan # None

FiringPlan == game.alien.firing_plan[1]

\* C1 as stated: an update with now >= t0 + d (also now exactly t0 + d) emits
\* exactly one projectile, and an update with now < t0 + d emits none.
C1_FiresAtDelay ==
    [][(IsTick /\ Armed) =>
          LET due == FiringPlan.plan_made + FiringPlan.delay
          IN  /\ game'.last_tick >= due => Len(fired') = 1
              /\ game'.last_tick < due => fired' = None]_vars

\* C1 amended: an update with now > t0 + d emits exactly one projectile, and
\* an update with now <= t0 + d (also now exactly t0 + d) emits none.
C1_FiresAfterDelay ==
    [][(IsTick /\ Armed) =>
          LET due == FiringPlan.plan_made + FiringPlan.delay
          IN  /\ game'.last_tick > due => Len(fired') = 1
              /\ game'.last_tick <= due => fired' = None]_vars

\* An update, 100 ms after the one before it, emitted a projectile and made
\* the next plan
C1_Fired ==
    /\ Len(fired) = 1
    /\ Armed
    /\ FiringPlan.plan_made = game.last_tick
    /\ last_dt = 100

\* C3 as stated: once a movement plan has expired, the alien's x lies within
\* its movement range after every update.
C3_StaysInLane ==
    expired >= 1 =>
        /\ game.alien.x_movement_range[1] <= game.alien.pos[1]
        /\ game.alien.pos[1] <= game.alien.x_movement_range[2]

\* C10: a projectile an update emits is lethal exactly when the plan the
\* update started from was dangerous, whatever is drawn for the next plan,
\* and it is created at the alien's position as that update left it.
C10_LethalityFromPlan ==
    [][(IsTick /\ fired' # None) =>
          /\ Armed
          /\ Deadly(fired'[1]) <=> FiringPlan.dangerous
          /\ fired'[1].pos = game'.alien.pos]_vars

\* A lethal projectile was emitted and the plan drawn next is not dangerous
C10_RedThenSafePlan ==
    /\ fired # None
    /\ Deadly(fired[1])
    /\ Armed
    /\ ~FiringPlan.dangerous

---------------------------------------------------------------------------
(* Properties of the tick *)

Range(seq) == {seq[i] : i \in DOMAIN seq}

\* The dt of a step that is a tick
StepDt == game'.last_tick - game.last_tick

\* The live bullets of a tick when its collisions are resolved: the old ones
\* advanced by dt, then the one the alien fired in this tick
Live == [i \in 1..Len(game.bullets) |-> MoveDown(game.bullets[i], StepDt)] \o fired'

\* Whether a position is farther from the origin than width * height
Beyond(pos, screen_size) ==
    pos[1] * pos[1] + pos[2] * pos[2]
        > (screen_size[1] * screen_size[2]) * (screen_size[1] * screen_size[2])

\* Whether a position is nearer to the origin than width * height
Inside(pos, screen_size) ==
    pos[1] * pos[1] + pos[2] * pos[2]
        < (screen_size[1] * screen_size[2]) * (screen_size[1] * screen_size[2])

ZeroTick == IsTick /\ StepDt = 0

\* C2 as stated: a tick with dt = 0 leaves the alien's position, the player's
\* position, the bullets, the score and game_over unchanged and neither makes
\* nor replaces a movement or firing plan, the very first tick included.
C2_ZeroTickChangesNothing ==
    [][ZeroTick =>
          /\ game'.alien = game.alien
          /\ game'.player = game.player
          /\ game'.bullets = game.bullets
          /\ game'.score = game.score
          /\ game'.game_over = game.game_over]_vars

\* C2 amended: a tick with dt = 0 never moves the player or a bullet, emits no
\* bullet and replaces no plan; it makes plans only as the very first tick;
\* it drops only bullets that already overlap the player or are no longer
\* inside the pruning threshold, and changes score and game_over only if a
\* bullet already overlaps the player; it leaves the alien where it is,
\* except right after a movement plan was made, when it puts the alien on
\* that plan's recorded start.
C2_ZeroTickEffects ==
    [][ZeroTick =>
          /\ game'.player = game.player
          /\ fired' = None
          /\ Range(game'.bullets) \subseteq Range(game.bullets)
          /\ Len(game'.bullets) <= Len(game.bullets)
          /\ \A b \in Range(game.bullets) \ Range(game'.bullets) :
                Collides(game.player, b) \/ ~Inside(b.pos, game.screen_size)
          /\ (\A b \in Range(game.bullets) : ~Collides(game.player, b)) =>
                game'.score = game.score /\ game'.game_over = game.game_over
          /\ game.alien.firing_plan # None =>
                game'.alien.firing_plan = game.alien.firing_plan
          /\ game.alien.movement_plan # None =>
                /\ game'.alien.movement_plan = game.alien.movement_plan
                /\ game'.alien.pos =
                      IF game.alien.movement_plan[1].plan_made = game.last_tick
                      THEN game.alien.movement_plan[1].start_pos
                      ELSE game.alien.pos
          /\ (game.alien.firing_plan = None \/ game.alien.movement_plan = None) =>
                last_dt = -1 /\ game'.alien.pos = game.alien.pos]_vars

\* A tick with dt = 0 resolved a collision: the tick before it had moved the
\* player onto a bullet
C2_ZeroTickHit == last_dt = 0 /\ hits # <<>>

\* C4: once game_over is true, no step sets it back to false.
C4_GameOverStays == [][game.game_over => game'.game_over]_vars

\* game_over is true after a tick in which no lethal bullet hit the player
C4_TickAfterGameOver ==
    /\ game.game_over
    /\ last_dt >= 0
    /\ \A b \in Range(hits) : ~Deadly(b)

\* C5: a tick adds to the score the number of harmless bullets that overlap
\* the player where it stood before the tick, counted among the advanced
\* bullets and the one just fired, and sets game_over exactly if it was set
\* or a lethal one of them overlaps; both happen in one tick.
C5_CollisionEffects ==
    [][IsTick =>
          LET caught == {i \in DOMAIN Live :
                            Collides(game.player, Live[i]) /\ Live[i].color = "Green"}
              struck == {i \in DOMAIN Live :
                            Collides(game.player, Live[i]) /\ Live[i].color = "Red"}
          IN  /\ game'.score = game.score + Cardinality(caught)
              /\ game'.game_over = (game.game_over \/ struck # {})]_vars

\* One tick resolved a harmless and a lethal bullet
C5_BothInOneTick ==
    /\ \E b \in Range(hits) : b.color = "Green"
    /\ \E b \in Range(hits) : b.color = "Red"

\* C6: the bullets a tick's collision step removes are exactly those it
\* scored or that set game_over, each once, all of them overlapping the
\* player, and every bullet that overlaps the player is removed.
C6_RemovedAreTheHits ==
    [][IsTick =>
          /\ removed' = hits'
          /\ \A b \in Range(removed') : Collides(game.player, b)
          /\ \A b \in Range(Live) \ Range(removed') : ~Collides(game.player, b)
          /\ Len(hits') = (game'.score - game.score)
                             + Cardinality({i \in DOMAIN hits' : hits'[i].color = "Red"})]_vars

\* A tick removed a bullet that hit and kept a bullet that did not
C6_RemovedAndKept == removed # <<>> /\ game.bullets # <<>>

\* C7 as stated: the bullet the alien fires in a tick is not resolved against
\* the player in that tick.
C7_NewBulletNotHit ==
    [][(IsTick /\ fired' # None) => fired'[1] \notin Range(hits')]_vars

\* C7 amended: the bullet the alien fires in a tick is tested in that tick
\* where it was created, at the alien's position: it is resolved and removed
\* in that tick exactly if it overlaps the player there, and otherwise stays
\* live at that position unless it is pruned.
C7_NewBulletTestedAtSpawn ==
    [][(IsTick /\ fired' # None) =>
          /\ fired'[1].pos = game'.alien.pos
          /\ fired'[1] \in Range(hits') <=> Collides(game.player, fired'[1])
          /\ fired'[1] \in Range(removed') <=> Collides(game.player, fired'[1])
          /\ (~Collides(game.player, fired'[1]) /\ Inside(fired'[1].pos, game.screen_size))
                => fired'[1] \in Range(game'.bullets)]_vars

\* The bullet fired in a tick was resolved in that tick
C7_HitAtSpawn == fired # None /\ fired[1] \in Range(hits)

\* C8: a tick decides its collisions against the player where it stood
\* before the tick's intent is applied: what is scored, what kills and what is
\* removed is what overlaps that position, whatever the intent.
C8_CollideBeforeMove ==
    [][IsTick =>
          /\ hits' = SelectSeq(Live, LAMBDA b : Collides(game.player, b))
          /\ removed' = SelectSeq(Live, LAMBDA b : Collides(game.player, b))]_vars

\* A tick resolved a bullet that does not overlap the player where the tick
\* moved it
C8_HitThenMovedAway ==
    /\ hits # <<>>
    /\ last_dt > 0
    /\ ~Collides(game.player, hits[1])

\* C9: after a tick no live bullet is farther from the origin than
\* width * height, and pruning removes no bullet nearer than that.
C9_Pruning ==
    [][IsTick =>
          /\ \A b \in Range(game'.bullets) : ~Beyond(b.pos, game.screen_size)
          /\ \A b \in Range(pruned') : ~Inside(b.pos, game.screen_size)]_vars

\* A tick pruned a bullet and kept another
C9_PrunedAndKept == pruned # <<>> /\ game.bullets # <<>>

\* C11: a tick adds at most one bullet to the live ones, however long its dt:
\* at most one bullet of the new list is not an old one advanced, the list
\* grows by at most one, and the alien returns at most one.
C11_OneShotPerTick ==
    [][IsTick =>
          LET old == {[b EXCEPT !.pos = <<b.pos[1], b.pos[2] + StepDt \div 2>>] :
                          b \in Range(game.bullets)}
              new == {i \in DOMAIN game'.bullets : game'.bullets[i] \notin old}
          IN  /\ Cardinality(new) <= 1
              /\ Len(game'.bullets) <= Len(game.bullets) + 1
              /\ Len(fired') <= 1]_vars

\* A tick of one second, longer than any delay drawn for a plan, added the
\* bullet of a drawn plan (the first plan's bullet is never red)
C11_LongTickOneShot ==
    /\ last_dt = 1000
    /\ fired # None
    /\ fired[1].color = "Red"
    /\ fired[1] \in Range(game.bullets)

----------------------------------------------------------------------------
(* are_colliding on its own *)

InitCollide ==
    /\ game = GameStarting(InitialScreen, CHOOSE sp \in SpriteConfigs : TRUE)
    /\ fired = None
    /\ hits = <<>>
    /\ removed = <<>>
    /\ pruned = <<>>
    /\ expired = 0
    /\ tock = FALSE
    /\ last_dt = -1
    /\ first_tick = -1
    /\ shot_times = <<>>
    /\ probe = None

Probe(rect1, rect2) ==
    /\ probe = None
    /\ probe' = Some([rect1 |-> rect1, rect2 |-> rect2,
                      result |-> AreColliding(rect1, rect2),
                      swapped |-> AreColliding(rect2, rect1)])
    /\ UNCHANGED <<game, fired, hits, removed, pruned, expired, tock, last_dt,
                   first_tick, shot_times>>

NextCollide == \E rect1 \in Rects, rect2 \in Rects : Probe(rect1, rect2)

SpecCollide == InitCollide /\ [][NextCollide]_vars

Max2(a, b) == IF a > b THEN a ELSE b
Min2(a, b) == IF a < b THEN a ELSE b

\* A gap lies between the two rectangles on the x axis or on the y axis
Gap(r1, r2) ==
    \/ r1.x + r1.w < r2.x
    \/ r2.x + r2.w < r1.x
    \/ r1.y + r1.h < r2.y
    \/ r2.y + r2.h < r1.y

\* One rectangle ends exactly where the other begins, on either axis
Touching(r1, r2) ==
    \/ r1.x + r1.w = r2.x
    \/ r2.x + r2.w = r1.x
    \/ r1.y + r1.h = r2.y
    \/ r2.y + r2.h = r1.y

\* The interiors of the two rectangles meet on both axes
OverlapStrictly(r1, r2) ==
    /\ Max2(r1.x, r2.x) < Min2(r1.x + r1.w, r2.x + r2.w)
    /\ Max2(r1.y, r2.y) < Min2(r1.y + r1.h, r2.y + r2.h)

Positive(r) == r.w > 0 /\ r.h > 0

\* C12: are_colliding is true exactly when the rectangles (of positive width
\* and height) overlap strictly on both axes; it is true for a rectangle of
\* positive width and height with itself, false across a gap on either axis,
\* false when the rectangles only touch along an edge, and the same with its
\* arguments swapped.
C12_CollisionOracle ==
    probe # None =>
        LET r1 == probe[1].rect1
            r2 == probe[1].rect2
            res == probe[1].result
        IN  /\ (Positive(r1) /\ Positive(r2)) => (res <=> OverlapStrictly(r1, r2))
            /\ (r1 = r2 /\ Positive(r1)) => res
            /\ Gap(r1, r2) => ~res
            /\ Touching(r1, r2) => ~res
            /\ res = probe[1].swapped

\* Two rectangles of positive size that share an edge and a stretch of it
\* were tested, and found not to collide
C12_TouchingApart ==
    /\ probe # None
    /\ Positive(probe[1].rect1)
    /\ Positive(probe[1].rect2)
    /\ probe[1].rect1.x + probe[1].rect1.w = probe[1].rect2.x
    /\ probe[1].rect1.y = probe[1].rect2.y
    /\ ~probe[1].result

\* The movement plan a step starts from
MovementPlan == game.alien.movement_plan[1]

\* C13 as stated: an update that finds the movement plan expired sets the
\* position to the plan's target, and the plan it draws records that position
\* (the one after the snap) as its start.
C13_RenewalStartsAtTarget ==
    [][(IsTick /\ game.alien.movement_plan # None
          /\ MovementPlan.plan_made + MovementPlan.duration < game'.last_tick) =>
          /\ game'.alien.pos = MovementPlan.next_pos
          /\ game'.alien.movement_plan[1].start_pos = game'.alien.pos]_vars

\* The point of the plan's segment reached at the new time
Along(plan, now) ==
    << plan.start_pos[1]
         + ((now - plan.plan_made) * (plan.next_pos[1] - plan.start_pos[1]))
               \div plan.duration,
       plan.start_pos[2]
         + ((now - plan.plan_made) * (plan.next_pos[2] - plan.start_pos[2]))
               \div plan.duration >>

\* C14 as stated: an update with now >= t0 + D (also now exactly t0 + D) sets
\* the position to the target and replaces the plan with one stamped now; an
\* update with now < t0 + D keeps the plan and puts the position on the tween.
C14_ExpiresAtDuration ==
    [][(IsTick /\ game.alien.movement_plan # None) =>
          LET due == MovementPlan.plan_made + MovementPlan.duration
          IN  /\ game'.last_tick >= due =>
                    /\ game'.alien.pos = MovementPlan.next_pos
                    /\ game'.alien.movement_plan[1].plan_made = game'.last_tick
              /\ game'.last_tick < due =>
                    /\ game'.alien.movement_plan = game.alien.movement_plan
                    /\ game'.alien.pos = Along(MovementPlan, game'.last_tick)]_vars

\* C14 amended: an update with now > t0 + D sets the position to the target
\* and replaces the plan with one stamped now; an update with now <= t0 + D
\* (also now exactly t0 + D) keeps the plan and puts the position on the
\* tween, which at now = t0 + D is the target.
C14_ExpiresAfterDuration ==
    [][(IsTick /\ game.alien.movement_plan # None) =>
          LET due == MovementPlan.plan_made + MovementPlan.duration
          IN  /\ game'.last_tick > due =>
                    /\ game'.alien.pos = MovementPlan.next_pos
                    /\ game'.alien.movement_plan[1].plan_made = game'.last_tick
              /\ game'.last_tick <= due =>
                    /\ game'.alien.movement_plan = game.alien.movement_plan
                    /\ game'.alien.pos = Along(MovementPlan, game'.last_tick)
              /\ game'.last_tick = due =>
                    game'.alien.pos = MovementPlan.next_pos]_vars

\* An update ran at exactly t0 + D: the alien has moved to the target and the
\* plan is still the one made at t0
C14_AtDurationPlanKept ==
    /\ game.alien.movement_plan # None
    /\ last_dt > 0
    /\ game.last_tick = MovementPlan.plan_made + MovementPlan.duration
    /\ game.alien.pos = MovementPlan.next_pos
    /\ game.alien.pos # MovementPlan.start_pos

\* C15: the first update only arms a firing plan that is not dangerous and
\* has a delay of 1000 ms, and emits nothing; no projectile is emitted earlier
\* than 1000 ms after the first update, and the first one emitted is green.
C15_FirstShot ==
    [][IsTick =>
          /\ ~Armed =>
                /\ fired' = None
                /\ game'.alien.firing_plan =
                      Some([dangerous |-> FALSE, plan_made |-> game'.last_tick,
                            delay |-> 1000])
          /\ fired' # None =>
                /\ first_tick # -1
                /\ game'.last_tick >= first_tick + 1000
                /\ shot_times = <<>> => fired'[1].color = "Green"]_vars

\* The first projectile has just been emitted
C15_FirstShotOut ==
    /\ Len(shot_times) = 1
    /\ fired # None
    /\ shot_times[1] = game.last_tick
    /\ first_tick >= 0

\* C18: any two consecutive emissions are at least 200 ms of simulation time
\* apart, whatever the durations of the updates between them.
C18_ShotsApart ==
    \A i \in 1..(Len(shot_times) - 1) : shot_times[i + 1] - shot_times[i] >= 200

\* A second projectile was emitted, several updates after the first and less
\* than the longest delay after it
C18_TwoShotsClose ==
    /\ Len(shot_times) >= 2
    /\ shot_times[2] - shot_times[1] < 600
    /\ last_dt < shot_times[2] - shot_times[1]

\* C16: every bullet live after a tick is the one fired in it or a bullet live
\* before it with the same x and colour and with y grown by 500 * dt (dt in
\* seconds), which is never less than before; no other step touches a bullet.
C16_BulletMotion ==
    [][IF IsTick
       THEN \A i \in DOMAIN game'.bullets :
                LET b == game'.bullets[i]
                IN  \/ fired' # None /\ b = fired'[1]
                    \/ \E j \in DOMAIN game.bullets :
                          LET a == game.bullets[j]
                          IN  /\ b.pos[1] = a.pos[1]
                              /\ b.color = a.color
                              /\ b.sprite = a.sprite
                              /\ b.pos[2] = a.pos[2] + (500 * StepDt) \div 1000
                              /\ b.pos[2] >= a.pos[2]
       ELSE game'.bullets = game.bullets]_vars

\* A bullet fired in an earlier tick is still live, 500 px below the alien
C16_BulletFell ==
    \E i \in DOMAIN game.bullets :
        /\ game.bullets[i].pos[2] = game.alien.pos[2] + 500
        /\ last_dt = 1000

\* The signed distance the keys held ask for in a step of dt ms, at 1000 px/s
Asked(keys_pressed, dt) ==
    IF keys_pressed.left /\ ~keys_pressed.right THEN 0 - (1000 * dt) \div 1000
    ELSE IF keys_pressed.right /\ ~keys_pressed.left THEN (1000 * dt) \div 1000
    ELSE 0

\* C17: the player's y never changes; a tick moves x by nothing when the
\* player stays still, by -1000 * dt for MoveLeft and by +1000 * dt for
\* MoveRight (dt in seconds), without clamping, so that MoveLeft followed by
\* MoveRight over the same dt gives the x back; no other step moves the player.
C17_PlayerMotion ==
    [][/\ game'.player.pos[2] = game.player.pos[2]
       /\ game'.player.sprite = game.player.sprite
       /\ IF IsTick
          THEN game'.player.pos[1] = game.player.pos[1] + Asked(game.keys_pressed, StepDt)
          ELSE game'.player.pos[1] = game.player.pos[1]
       /\ \A dt \in DtSet :
             LET left == ExecuteIntent(game.player, "MoveLeft", dt)
                 back == ExecuteIntent(left, "MoveRight", dt)
             IN  /\ left.pos = <<game.player.pos[1] - dt, game.player.pos[2]>>
                 /\ back.pos = game.player.pos
                 /\ ExecuteIntent(game.player, "StayStill", dt) = game.player]_vars

\* The player, moving left for a second, went past the left edge of the window
C17_PlayerPastEdge ==
    /\ game.player.pos[1] < 0
    /\ last_dt = 1000
    /\ game.keys_pressed.left

----------------------------------------------------------------------------
(* Steady play: the game in a window of a fixed size, every tick taking time,
   and the event loop always getting to its next update *)

InitSteady ==
    /\ \E sprites \in SpriteConfigs : game = GameStarting(SteadyScreen, sprites)
    /\ fired = None
    /\ hits = <<>>
    /\ removed = <<>>
    /\ pruned = <<>>
    /\ expired = 0
    /\ tock = FALSE
    /\ last_dt = -1
    /\ first_tick = -1
    /\ shot_times = <<>>
    /\ probe = None

\* EventHandler::update, lines 293-297
SteadyTick(dt) ==
    /\ game.last_tick + dt <= MaxSteadyTime
    /\ \E d \in Draws(game.alien, game.last_tick + dt) :
          LET r == TickFn(game, dt, d)
          IN  /\ game' = r.game
              /\ fired' = r.fired
              /\ hits' = r.hits
              /\ removed' = r.removed
              /\ pruned' = r.pruned
              /\ History(game.last_tick + dt, r.fired)
    /\ expired' = CountExpired(game.alien, game.last_tick + dt)
    /\ tock' = ~tock
    /\ last_dt' = dt

SteadyUpdate == \E dt \in SteadyDtSet : SteadyTick(dt)

NextSteady ==
    \/ SteadyUpdate
    \/ \E key \in {"left", "right"} : KeyDown(key)
    \/ \E key \in {"left", "right"} : KeyUp(key)

\* The event loop gets to its next update for as long as the clock of the
\* model lets one run; an update is the step that flips tock
CanTick == \E dt \in SteadyDtSet : game.last_tick + dt <= MaxSteadyTime

TickStep == CanTick /\ tock' = ~tock

SpecSteady == InitSteady /\ [][NextSteady]_vars /\ WF_tock(TickStep)

\* The time at which a live bullet was fired: it has fallen 500 px/s since,
\* from the height of the alien
Birth(b) == game.last_tick - 2 * (b.pos[2] - game.alien.pos[2])

\* A bullet fired early enough for two more ticks to fit before the clock of
\* the model stops
Early(b) == \E dt \in SteadyDtSet : Birth(b) + 2 * dt <= MaxSteadyTime

\* C19: in a window of a fixed size, with ticks that all take time, no live
\* bullet is farther down than width * height px, so that none outlives the
\* time it takes to fall that far, and every bullet fired is in the end
\* removed for good (those fired early enough for the clock of the model).
C19_BulletsGoAway ==
    /\ [](\A i \in DOMAIN game.bullets :
             game.bullets[i].pos[2] < game.screen_size[1] * game.screen_size[2])
    /\ <>[](\A i \in DOMAIN game.bullets : ~Early(game.bullets[i]))

\* A bullet that the player dodged has been pruned, two ticks after it was
\* fired, and no bullet fired that early is live
C19_EarlyBulletPruned ==
    /\ \E i \in DOMAIN pruned : Early(pruned[i])
    /\ removed = <<>>
    /\ last_dt = 600
    /\ \A i \in DOMAIN game.bullets : ~Early(game.bullets[i])

\* C20: a tick taken when game_over is set does what it would do with the
\* flag clear, but for the flag: the clock advances by dt, the player moves as
\* the keys ask, the alien, the bullets and the score come out the same, and
\* the score grows by one for each green bullet that hits the player.
C20_GameOverDoesNotGate ==
    [][(IsTick /\ game.game_over) =>
          /\ game'.game_over
          /\ game'.last_tick = game.last_tick + last_dt'
          /\ game'.player.pos[1] =
                game.player.pos[1] + Asked(game.keys_pressed, last_dt')
          /\ game'.score =
                game.score + Cardinality({i \in DOMAIN hits' : hits'[i].color = "Green"})
          /\ \E d \in Draws(game.alien, game.last_tick + last_dt') :
                LET r == TickFn([game EXCEPT !.game_over = FALSE], last_dt', d)
                IN  /\ game' = [r.game EXCEPT !.game_over = TRUE]
                    /\ fired' = r.fired
                    /\ hits' = r.hits
                    /\ removed' = r.removed
                    /\ pruned' = r.pruned]_vars

\* With the game already over, a tick counted a green bullet that hit the
\* player
C20_ScoredAfterGameOver ==
    /\ game.game_over
    /\ \E i \in DOMAIN hits : hits[i].color = "Green"
    /\ \A i \in DOMAIN hits : hits[i].color # "Red"
    /\ game.score >= 1
    /\ last_dt > 0

====
